---- MODULE Spec2Model ----
(***************************************************************************)
(* A model of pyrobolearn's AngularMomentumTask (priorities/tasks/velocity/ *)
(* angular_momentum.py) and of the RL metrics AverageReturnMetric and       *)
(* LossMetric (metrics/rl_metrics.py).                                      *)
(*                                                                          *)
(* Three specifications share the module: Spec drives one                   *)
(* AngularMomentumTask, SpecReturn one AverageReturnMetric and SpecLoss one *)
(* LossMetric.  Each leaves the other objects' variables alone.             *)
(***************************************************************************)
EXTENDS Integers, Sequences, FiniteSets, TLC

\* ------------------------------------------------------------------ bounds
\* Longest list, tuple or array handed to the task.
MaxLen == 4
\* Number of columns N of the centroidal momentum matrix.
NDof == 2
\* The model interface takes the configurations 0..MaxConfig.
MaxConfig == 1

\* ------------------------------------------------------- program constants
\* Length a desired angular momentum must have, and of the default zeros.
RefLen == 3
\* update keeps the first AngRows rows of the centroidal momentum matrix.
AngRows == 3
\* Rows of the centroidal momentum matrix A_G (6 x N).
CmmRows == 6

\* ------------------------------------------------------------ Python values
\* A number with the dtype numpy gives it.
I(n) == [t |-> "int", v |-> n]
F(n) == [t |-> "float", v |-> n]

\* A Python value: its type (kind), its number of array dimensions (0 for a
\* value that is no sequence) and its elements.
PyNone == [kind |-> "None", ndim |-> 0, elems |-> <<>>]
Arr(kind, s) == [kind |-> kind, ndim |-> 1, elems |-> s]
PyScalar == [kind |-> "float", ndim |-> 0, elems |-> <<F(2)>>]
PyStr == [kind |-> "str", ndim |-> 0, elems |-> <<[t |-> "str", v |-> 0]>>]
PyRange == Arr("range", <<I(0), I(1), I(2)>>)
\* A zero-dimensional numpy array, np.array(2.0).
Arr0d == [kind |-> "ndarray", ndim |-> 0, elems |-> <<F(2)>>]
\* An element that is an inner list of n numbers, and one that is a string.
Row(n) == [t |-> "row", v |-> n]
S(n) == [t |-> "str", v |-> n]
\* A list of three lists of two numbers, [[1, 2], [3, 4], [5, 6]]: shape (3, 2).
Matrix3x2 == [kind |-> "list", ndim |-> 2, elems |-> <<Row(2), Row(2), Row(2)>>]
\* A list of three strings, ['a', 'b', 'c'].
StrList == Arr("list", <<S(1), S(2), S(3)>>)

\* The element sequences handed in, of every length up to n: all ints, all
\* floats, and an int followed by floats.
IntSeq(n) == [i \in 1..n |-> I(i)]
FloatSeq(n) == [i \in 1..n |-> F(i + 1)]
MixedSeq(n) == [i \in 1..n |-> IF i = 1 THEN I(1) ELSE F(i)]
SeqsUpTo(n) ==
    {IntSeq(k) : k \in 0..n} \cup {FloatSeq(k) : k \in 0..n}
    \cup {MixedSeq(k) : k \in 2..n}
Homogeneous(s) == \A i, j \in DOMAIN s : s[i].t = s[j].t

\* What a caller may hand to the task as a desired reference.  A numpy array
\* has one dtype.
ArrayLikes ==
    {Arr(k, s) : k \in {"list", "tuple"}, s \in SeqsUpTo(MaxLen)}
    \cup {Arr("ndarray", s) : s \in {z \in SeqsUpTo(MaxLen) : Homogeneous(z)}}
Inputs ==
    ArrayLikes \cup {PyNone, PyScalar, PyStr, PyRange, Arr0d, Matrix3x2, StrList}

\* np.zeros(n): n float zeros.
zeros(n) == Arr("ndarray", [i \in 1..n |-> F(0)])

\* np.asarray(x): an array is returned as it is; a list or tuple (or another
\* sequence) becomes an array of as many dimensions as the list is nested,
\* whose numbers all take the float dtype as soon as one of them is a float
\* (strings stay strings); anything else becomes a zero-dimensional array.
asarray(x) ==
    IF x.kind = "ndarray" THEN x
    ELSE IF x.ndim = 0 THEN [kind |-> "ndarray", ndim |-> 0, elems |-> x.elems]
    ELSE LET anyFloat == \E i \in DOMAIN x.elems : x.elems[i].t = "float"
         IN [kind |-> "ndarray", ndim |-> x.ndim,
             elems |-> [i \in DOMAIN x.elems |->
                          IF anyFloat /\ x.elems[i].t = "int"
                          THEN F(x.elems[i].v) ELSE x.elems[i]]]

\* The outcome of a call: the exception it raised ("none" if it returned)
\* and the value it computed.
Ok(v) == [exc |-> "none", val |-> v]
Raise(e) == [exc |-> e, val |-> PyNone]

\* ---------------------------------------------------------------- variables
VARIABLES
    pc,        \* "absent" until the task is constructed, then "ready"
    task,      \* the task's attributes: _des_k, _A, _b
    q,         \* the configuration of the model
    op,        \* the last operation: its name, argument and exception
    prevName,  \* the name of the operation before it
    pre,       \* the task's attributes when the last operation began
    ret        \* what the last operation returned

taskVars == <<pc, task, q, op, prevName, pre, ret>>

VARIABLES
    mpc,       \* "absent" until the metric is constructed, then "ready"
    metric,    \* the metric's attributes
    mop,       \* the last operation on the metric: its name, the gamma and
               \* the task object given, and its exception
    mpre,      \* the metric's returns and task when the last operation began
    calls,     \* the num_steps of each task.run call of the last operation
    rewards    \* the rewards the task's runs return, in turn, in that operation

retVars == <<mpc, metric, mop, mpre, calls, rewards>>

VARIABLES
    lpc,       \* "absent" until the loss metric is constructed, then "ready"
    lmetric,   \* the loss metric's attributes
    lop,       \* the last operation on it: name, arguments, exception
    lpre,      \* the loss metric's attributes when the last operation began
    nupdates   \* how many batches, epochs and episodes have ended

lossVars == <<lpc, lmetric, lop, lpre, nupdates>>

VARIABLES
    hpc,       \* "idle", "updated" after the tasks' update, "solved" after the solve
    hier,      \* the (A, b) pair of the task of each of the two priority levels
    hcmd       \* the command vector of the last solve, <<>> for none

hierVars == <<hpc, hier, hcmd>>

VARIABLES
    spc,       \* where the spawn script is: "start", "parsed", "waiting",
               \* "checking", "loading", "spawning", "configuring",
               \* "unpausing", "returned", or "exited"
    argv,      \* sys.argv
    sm,        \* the SpawnModel object's attributes
    sexit,     \* how the script ended: "none", "sys.exit(0)", "sys.exit(1)",
               \* or the exception that ended it
    shutdown,  \* rospy.is_shutdown()
    subscribed,\* the script has subscribed to model_states
    nmsgs,     \* how many model_states messages have been handed to it
    listed,    \* one of these messages listed the model waited for
    services   \* the services called so far, in order

spawnVars == <<spc, argv, sm, sexit, shutdown, subscribed, nmsgs, listed,
               services>>

\* The variables of the subsystems after the metrics.
VARIABLES
    dpc,       \* "running", or "exited" once the process has ended
    dop,       \* the last call of a decorated method: the decorator, the
               \* arguments, and what the method does when it is called
    dcalled,   \* the arguments the method was called with, <<>> if it was not
    dret       \* the outcome of the call for its caller

decoVars == <<dpc, dop, dcalled, dret>>

restVars == <<hierVars, spawnVars, decoVars>>

vars == <<taskVars, retVars, lossVars, restVars>>

\* ------------------------------------------------------------ ModelInterface
\* get_centroidal_momentum_matrix() in configuration cfg: a CmmRows x NDof
\* matrix that depends on the configuration.
get_centroidal_momentum_matrix(cfg) ==
    [i \in 1..CmmRows |-> [j \in 1..NDof |-> cfg * i + j]]

\* A (None until the first update) is the empty matrix <<>>.
NoTask == [des_k |-> PyNone, A |-> <<>>, b |-> PyNone]

\* ------------------------------------------------------ AngularMomentumTask
\* The setter of desired_angular_momentum: the value it would store, or the
\* exception it raises.
SetterNoTypeCheck(k_d) ==
    LET k1 == IF k_d = PyNone THEN zeros(RefLen) ELSE k_d
        k2 == asarray(k1)
    IN IF k2.ndim = 0 THEN Raise("TypeError")
       ELSE IF Len(k2.elems) # RefLen THEN Raise("ValueError")
       ELSE Ok(k2)

SetterNoLengthCheck(k_d) ==
    LET k1 == IF k_d = PyNone THEN zeros(RefLen) ELSE k_d
    IN IF k1.kind \notin {"ndarray", "list", "tuple"} THEN Raise("TypeError")
       ELSE LET k2 == asarray(k1)
            IN IF k2.ndim = 0 THEN Raise("TypeError") ELSE Ok(k2)

SetterStoresZeros(k_d) ==
    LET k1 == IF k_d = PyNone THEN zeros(RefLen) ELSE k_d
    IN IF k1.kind \notin {"ndarray", "list", "tuple"} THEN Raise("TypeError")
       ELSE LET k2 == asarray(k1)
            IN IF k2.ndim = 0 THEN Raise("TypeError")
               ELSE IF Len(k2.elems) # RefLen THEN Raise("ValueError")
               ELSE Ok(zeros(RefLen))

SetterNoneRaises(k_d) ==
    IF k_d.kind \notin {"ndarray", "list", "tuple"} THEN Raise("TypeError")
    ELSE LET k2 == asarray(k_d)
         IN IF k2.ndim = 0 THEN Raise("TypeError")
            ELSE IF Len(k2.elems) # RefLen THEN Raise("ValueError")
            ELSE Ok(k2)

desired_angular_momentum_setter(k_d) ==
    LET k1 == IF k_d = PyNone THEN zeros(RefLen) ELSE k_d
    IN IF k1.kind \notin {"ndarray", "list", "tuple"} THEN Raise("TypeError")
       ELSE LET k2 == asarray(k1)
            IN \* len() of a zero-dimensional array raises TypeError
               IF k2.ndim = 0 THEN Raise("TypeError")
               ELSE IF Len(k2.elems) # RefLen THEN Raise("ValueError")
               ELSE Ok(k2)

\* x_desired's setter forwards to desired_angular_momentum's.
x_desired_setter(k_d) == desired_angular_momentum_setter(k_d)

\* x_desired's getter: the stored reference of the task `self`.
x_desired(self) == self.des_k

\* _update: A and b of the task `self` after the call, the model being in
\* configuration cfg.
UpdateKeepsA(self, cfg) ==
    [self EXCEPT !.A = IF self.A = <<>>
                       THEN SubSeq(get_centroidal_momentum_matrix(cfg), 1, AngRows)
                       ELSE self.A,
                 !.b = self.des_k]

UpdateAccumulates(self, cfg) ==
    LET M == SubSeq(get_centroidal_momentum_matrix(cfg), 1, AngRows)
    IN [self EXCEPT !.A = IF self.A = <<>> THEN M
                          ELSE [i \in 1..AngRows |->
                                  [j \in 1..NDof |-> self.A[i][j] + M[i][j]]],
                    !.b = self.des_k]

_update(self, cfg) ==
    [self EXCEPT !.A = SubSeq(get_centroidal_momentum_matrix(cfg), 1, AngRows),
                 !.b = self.des_k]

\* Task.update(): the base class recomputes (A, b) through _update.
update(self, cfg) == _update(self, cfg)

\* __init__ on a fresh object: the reference is set, then the first update
\* runs.  The outcome's val is the constructed task.
InitNoFirstUpdate(k, cfg) ==
    LET r == desired_angular_momentum_setter(k)
    IN IF r.exc # "none" THEN [exc |-> r.exc, val |-> NoTask]
       ELSE [exc |-> "none", val |-> [NoTask EXCEPT !.des_k = r.val]]

AngularMomentumTask_init(k, cfg) ==
    LET r == desired_angular_momentum_setter(k)
    IN IF r.exc # "none" THEN [exc |-> r.exc, val |-> NoTask]
       ELSE [exc |-> "none",
             val |-> update([NoTask EXCEPT !.des_k = r.val], cfg)]

OpRec(name, arg, exc) == [name |-> name, arg |-> arg, exc |-> exc]

\* task = AngularMomentumTask(model, desired_angular_momentum=k)
Construct(k) ==
    /\ pc = "absent"
    /\ LET r == AngularMomentumTask_init(k, q)
       IN /\ pc' = IF r.exc = "none" THEN "ready" ELSE "absent"
          /\ task' = r.val
          /\ op' = OpRec("init", k, r.exc)
    /\ prevName' = op.name
    /\ pre' = task
    /\ ret' = PyNone
    /\ UNCHANGED <<q, retVars, lossVars, restVars>>

\* set_desired_references that also copies the new reference into b.
SetDesiredReferencesAndB(x) ==
    /\ pc = "ready"
    /\ LET r == x_desired_setter(x)
       IN /\ task' = IF r.exc = "none"
                     THEN [task EXCEPT !.des_k = r.val, !.b = r.val]
                     ELSE task
          /\ op' = OpRec("set", x, r.exc)
    /\ prevName' = op.name
    /\ pre' = task
    /\ ret' = PyNone
    /\ UNCHANGED <<pc, q, retVars, lossVars, restVars>>

\* task.set_desired_references(x)
set_desired_references(x) ==
    /\ pc = "ready"
    /\ LET r == x_desired_setter(x)
       IN /\ task' = IF r.exc = "none" THEN [task EXCEPT !.des_k = r.val]
                     ELSE task
          /\ op' = OpRec("set", x, r.exc)
    /\ prevName' = op.name
    /\ pre' = task
    /\ ret' = PyNone
    /\ UNCHANGED <<pc, q, retVars, lossVars, restVars>>

\* task.get_desired_references()
get_desired_references ==
    /\ pc = "ready"
    /\ ret' = x_desired(task)
    /\ op' = OpRec("get", PyNone, "none")
    /\ prevName' = op.name
    /\ pre' = task
    /\ UNCHANGED <<pc, task, q, retVars, lossVars, restVars>>

\* task.update()
Update ==
    /\ pc = "ready"
    /\ task' = update(task, q)
    /\ op' = OpRec("update", PyNone, "none")
    /\ prevName' = op.name
    /\ pre' = task
    /\ ret' = PyNone
    /\ UNCHANGED <<pc, q, retVars, lossVars, restVars>>

\* The robot moves: the model interface is in another configuration.
ModelStep ==
    /\ \E c \in (0..MaxConfig) \ {q} : q' = c
    /\ op' = OpRec("step", PyNone, "none")
    /\ prevName' = op.name
    /\ pre' = task
    /\ ret' = PyNone
    /\ UNCHANGED <<pc, task, retVars, lossVars, restVars>>

TaskInit ==
    /\ pc = "absent"
    /\ task = NoTask
    /\ q \in 0..MaxConfig
    /\ op = OpRec("none", PyNone, "none")
    /\ prevName = "none"
    /\ pre = NoTask
    /\ ret = PyNone

\* No task is used.
TaskIdle ==
    /\ pc = "absent"
    /\ task = NoTask
    /\ q = 0
    /\ op = OpRec("none", PyNone, "none")
    /\ prevName = "none"
    /\ pre = NoTask
    /\ ret = PyNone

TaskNext ==
    \/ \E k \in Inputs : Construct(k)
    \/ \E x \in Inputs : set_desired_references(x)
    \/ get_desired_references
    \/ Update
    \/ ModelStep

\* ------------------------------------------------------------------ numbers
\* A Python float: a rational num/den, or NaN (den = 0 for no number).
R(n, d) == [nan |-> FALSE, num |-> n, den |-> d]
NaN == [nan |-> TRUE, num |-> 0, den |-> 0]
\* a > b and a < b; every comparison with NaN is false.
Gt(a, b) == ~a.nan /\ ~b.nan /\ a.num * b.den > b.num * a.den
Lt(a, b) == ~a.nan /\ ~b.nan /\ a.num * b.den < b.num * a.den

RECURSIVE Sum(_)
Sum(s) == IF s = <<>> THEN 0 ELSE Head(s) + Sum(Tail(s))

\* np.asarray(rewards).mean(): the sum over the count, NaN for no rewards.
mean(s) == IF s = <<>> THEN NaN ELSE R(Sum(s), Len(s))

\* ------------------------------------------------------ AverageReturnMetric
\* Discount factors given: the integers and the halves between
\* -MaxGammaNum and MaxGammaNum, and NaN.
MaxGammaNum == 2
\* task.run returns a reward in 0..MaxReward.
MaxReward == 1
\* num_rollouts is in 0..MaxRollouts and num_steps in 1..MaxSteps.
MaxRollouts == 2
MaxSteps == 2
\* At most MaxEpisodes episodes end.
MaxEpisodes == 2

Gammas ==
    {R(n, 1) : n \in (0 - MaxGammaNum)..MaxGammaNum}
    \cup {R(n, 2) : n \in {m \in (0 - MaxGammaNum)..MaxGammaNum : m % 2 = 1}}
    \cup {NaN}
Rewards == 0..MaxReward
\* The rewards the task's next n runs will return.
RunOracles(n) == [1..n -> Rewards]
\* Objects handed in as task: two RLTask instances, and something else.
RLTasks == {"RLTask", "other RLTask"}
TaskObjects == RLTasks \cup {"object"}

NoMetric == [gamma |-> R(1, 1), task |-> "unset", returns |-> <<>>,
             num_steps |-> 0, num_rollouts |-> 0]

\* The setter of gamma: the value it stores.
gamma_setter(gamma) ==
    IF Gt(gamma, R(1, 1)) THEN R(1, 1)
    ELSE IF Lt(gamma, R(0, 1)) THEN R(0, 1)
    ELSE gamma

\* The setter of task without the isinstance check.
TaskSetterNoTypeCheck(t) == [exc |-> "none", val |-> t]

\* The setter of task: the task stored, or TypeError.
task_setter(t) ==
    IF t \notin RLTasks THEN [exc |-> "TypeError", val |-> "unset"]
    ELSE [exc |-> "none", val |-> t]

\* __init__ on a fresh object.
AverageReturnMetric_init(task_, gamma, num_rollouts, num_steps) ==
    LET g == gamma_setter(gamma)
        t == task_setter(task_)
    IN IF t.exc # "none" THEN [exc |-> t.exc, val |-> NoMetric]
       ELSE [exc |-> "none",
             val |-> [gamma |-> g, task |-> t.val, returns |-> <<>>,
                      num_steps |-> num_steps, num_rollouts |-> num_rollouts]]

\* _end_episode_update of the metric `self`, the task's runs returning the
\* rewards of `oracle` in turn: the metric afterwards and the num_steps each
\* run was called with.
EndEpisodeOneRolloutShort(self, oracle) ==
    LET n == IF self.num_rollouts > 0 THEN self.num_rollouts - 1 ELSE 0
        rs == SubSeq(oracle, 1, n)
    IN [self |-> [self EXCEPT !.returns = Append(@, mean(rs))],
        calls |-> [i \in 1..n |-> self.num_steps]]

AverageReturnMetric_end_episode_update(self, oracle) ==
    LET n == self.num_rollouts
        rs == SubSeq(oracle, 1, n)
    IN [self |-> [self EXCEPT !.returns = Append(@, mean(rs))],
        calls |-> [i \in 1..n |-> self.num_steps]]

MopRec(name, arg, obj, exc) ==
    [name |-> name, arg |-> arg, obj |-> obj, exc |-> exc]
\* The returns and the task of the metric `self`.
MpreOf(self) == [returns |-> self.returns, task |-> self.task]

\* metric = AverageReturnMetric(task, gamma, num_rollouts, num_steps)
ConstructReturnMetric(t, g, nr, ns) ==
    /\ mpc = "absent"
    /\ LET r == AverageReturnMetric_init(t, g, nr, ns)
       IN /\ mpc' = IF r.exc = "none" THEN "ready" ELSE "absent"
          /\ metric' = r.val
          /\ mop' = MopRec("init", g, t, r.exc)
    /\ mpre' = MpreOf(metric)
    /\ calls' = <<>>
    /\ rewards' = <<>>
    /\ UNCHANGED <<taskVars, lossVars, restVars>>

\* metric.gamma = g
SetGamma(g) ==
    /\ mpc = "ready"
    /\ metric' = [metric EXCEPT !.gamma = gamma_setter(g)]
    /\ mop' = MopRec("gamma", g, "unset", "none")
    /\ mpre' = MpreOf(metric)
    /\ calls' = <<>>
    /\ rewards' = <<>>
    /\ UNCHANGED <<mpc, taskVars, lossVars, restVars>>

\* metric.task = t
SetTask(t) ==
    /\ mpc = "ready"
    /\ LET r == task_setter(t)
       IN /\ metric' = IF r.exc = "none" THEN [metric EXCEPT !.task = r.val]
                       ELSE metric
          /\ mop' = MopRec("task", R(0, 1), t, r.exc)
    /\ mpre' = MpreOf(metric)
    /\ calls' = <<>>
    /\ rewards' = <<>>
    /\ UNCHANGED <<mpc, taskVars, lossVars, restVars>>

\* metric._end_episode_update()
EndEpisodeReturn(oracle) ==
    /\ mpc = "ready"
    /\ Len(metric.returns) < MaxEpisodes
    /\ LET r == AverageReturnMetric_end_episode_update(metric, oracle)
       IN /\ metric' = r.self
          /\ calls' = r.calls
    /\ rewards' = oracle
    /\ mop' = MopRec("end_episode", R(0, 1), "unset", "none")
    /\ mpre' = MpreOf(metric)
    /\ UNCHANGED <<mpc, taskVars, lossVars, restVars>>

ReturnInit ==
    /\ mpc = "absent"
    /\ metric = NoMetric
    /\ mop = MopRec("none", R(0, 1), "unset", "none")
    /\ mpre = MpreOf(NoMetric)
    /\ calls = <<>>
    /\ rewards = <<>>

ReturnNext ==
    \/ \E t \in TaskObjects, g \in Gammas,
          nr \in 0..MaxRollouts, ns \in 1..MaxSteps :
            ConstructReturnMetric(t, g, nr, ns)
    \/ \E g \in Gammas : SetGamma(g)
    \/ \E t \in TaskObjects : SetTask(t)
    \/ \E oracle \in RunOracles(metric.num_rollouts) : EndEpisodeReturn(oracle)

\* --------------------------------------------------------------- LossMetric
\* A Python string is the sequence of its characters.
Str(cs) == [kind |-> "str", chars |-> cs]
StrNone == [kind |-> "None", chars |-> <<>>]

UpperChars == <<"A", "B", "C", "D", "E", "F", "G", "H", "I", "J", "K", "L", "M",
                "N", "O", "P", "Q", "R", "S", "T", "U", "V", "W", "X", "Y", "Z">>
LowerChars == <<"a", "b", "c", "d", "e", "f", "g", "h", "i", "j", "k", "l", "m",
                "n", "o", "p", "q", "r", "s", "t", "u", "v", "w", "x", "y", "z">>

\* str.lower(): every upper-case letter becomes its lower-case letter.
lower(cs) ==
    [i \in DOMAIN cs |->
        IF \E k \in DOMAIN UpperChars : UpperChars[k] = cs[i]
        THEN LowerChars[CHOOSE k \in DOMAIN UpperChars : UpperChars[k] = cs[i]]
        ELSE cs[i]]

\* cs[:n]
Slice(cs, n) == SubSeq(cs, 1, IF Len(cs) < n THEN Len(cs) ELSE n)

episode == <<"e", "p", "i", "s", "o", "d", "e">>
epoch == <<"e", "p", "o", "c", "h">>
iteration == <<"i", "t", "e", "r", "a", "t", "i", "o", "n">>

\* The values given as wrt.
WrtInputs ==
    {Str(<<"e", "p", "i", "s", "o", "d", "e">>),
     Str(<<"E", "p", "i", "s", "o", "d", "e", "s">>),
     Str(<<"E", "P", "I", "S", "O", "D", "E">>),
     Str(<<"e", "p", "i", "s", "o", "d">>),
     Str(<<"e", "p", "o", "c", "h">>),
     Str(<<"E", "P", "O", "C", "H", "S">>),
     Str(<<"E", "p", "o", "c", "h", "_", "5">>),
     Str(<<"e", "p", "o", "c">>),
     Str(<<"x", "e", "p", "o", "c", "h">>),
     Str(<<"b", "a", "t", "c", "h">>),
     Str(<<"i", "t", "e", "r", "a", "t", "i", "o", "n">>),
     Str(<<"b", "o", "g", "u", "s">>),
     Str(<<>>),
     StrNone}
\* Objects handed in as loss: two BatchLoss instances, and something else.
BatchLosses == {"BatchLoss", "other BatchLoss"}
LossObjects == BatchLosses \cup {"object"}
\* loss.value.item() at the end of a batch is in 1..MaxLossValue.
MaxLossValue == 2
\* At most MaxLossUpdates batches, epochs and episodes end.
MaxLossUpdates == 3

NoLossMetric == [loss |-> "unset", batch_losses |-> <<>>, epoch_losses |-> <<>>,
                 losses |-> <<>>, wrt |-> <<>>]

\* The setter of wrt: the string it stores.
WrtNoLower(wrt) ==
    IF wrt.kind = "None" THEN iteration
    ELSE LET w == wrt.chars
         IN IF Slice(w, 7) = episode THEN episode
            ELSE IF Slice(w, 5) = epoch THEN epoch
            ELSE iteration

wrt_setter(wrt) ==
    IF wrt.kind = "None" THEN iteration
    ELSE LET w == lower(wrt.chars)
         IN IF Slice(w, 7) = episode THEN episode
            ELSE IF Slice(w, 5) = epoch THEN epoch
            ELSE iteration

\* The setter of loss: the loss stored, or TypeError.
loss_setter(l) ==
    IF l \notin BatchLosses THEN [exc |-> "TypeError", val |-> "unset"]
    ELSE [exc |-> "none", val |-> l]

\* __init__ on a fresh object.
LossMetric_init(l, wrt) ==
    LET r == loss_setter(l)
    IN IF r.exc # "none" THEN [exc |-> r.exc, val |-> NoLossMetric]
       ELSE [exc |-> "none",
             val |-> [loss |-> r.val, batch_losses |-> <<>>,
                      epoch_losses |-> <<>>, losses |-> <<>>,
                      wrt |-> wrt_setter(wrt)]]

\* _end_batch_update, loss.value.item() being v.
_end_batch_update(self, v) ==
    [self EXCEPT !.batch_losses = Append(@, v)]

\* _end_epoch_update without emptying the batch list.
EndEpochKeepsBatchLosses(self) ==
    [self EXCEPT !.epoch_losses = Append(@, self.batch_losses)]

\* _end_epoch_update
_end_epoch_update(self) ==
    [self EXCEPT !.epoch_losses = Append(@, self.batch_losses),
                 !.batch_losses = <<>>]

\* LossMetric._end_episode_update
LossMetric_end_episode_update(self) ==
    [self EXCEPT !.losses = Append(@, self.epoch_losses),
                 !.epoch_losses = <<>>]

\* An operation on the loss metric: its name, the wrt given, the loss
\* object given, the loss value of the batch, and its exception.
LopRec(name, arg, exc) ==
    [name |-> name, arg |-> arg, obj |-> "unset", val |-> 0, exc |-> exc]

\* metric = LossMetric(loss, wrt)
ConstructLossMetric(l, w) ==
    /\ lpc = "absent"
    /\ LET r == LossMetric_init(l, w)
       IN /\ lpc' = IF r.exc = "none" THEN "ready" ELSE "absent"
          /\ lmetric' = r.val
          /\ lop' = [LopRec("init", w, r.exc) EXCEPT !.obj = l]
    /\ lpre' = lmetric
    /\ UNCHANGED <<nupdates, taskVars, retVars, restVars>>

\* metric.wrt = w
SetWrt(w) ==
    /\ lpc = "ready"
    /\ lmetric' = [lmetric EXCEPT !.wrt = wrt_setter(w)]
    /\ lop' = LopRec("wrt", w, "none")
    /\ lpre' = lmetric
    /\ UNCHANGED <<lpc, nupdates, taskVars, retVars, restVars>>

\* metric.loss = l
SetLoss(l) ==
    /\ lpc = "ready"
    /\ LET r == loss_setter(l)
       IN /\ lmetric' = IF r.exc = "none" THEN [lmetric EXCEPT !.loss = r.val]
                        ELSE lmetric
          /\ lop' = [LopRec("loss", StrNone, r.exc) EXCEPT !.obj = l]
    /\ lpre' = lmetric
    /\ UNCHANGED <<lpc, nupdates, taskVars, retVars, restVars>>

\* metric._end_batch_update()
EndBatch(v) ==
    /\ lpc = "ready" /\ nupdates < MaxLossUpdates
    /\ lmetric' = _end_batch_update(lmetric, v)
    /\ lop' = [LopRec("end_batch", StrNone, "none") EXCEPT !.val = v]
    /\ lpre' = lmetric
    /\ nupdates' = nupdates + 1
    /\ UNCHANGED <<lpc, taskVars, retVars, restVars>>

\* metric._end_epoch_update()
EndEpoch ==
    /\ lpc = "ready" /\ nupdates < MaxLossUpdates
    /\ lmetric' = _end_epoch_update(lmetric)
    /\ lop' = LopRec("end_epoch", StrNone, "none")
    /\ lpre' = lmetric
    /\ nupdates' = nupdates + 1
    /\ UNCHANGED <<lpc, taskVars, retVars, restVars>>

\* metric._end_episode_update()
EndEpisodeLoss ==
    /\ lpc = "ready" /\ nupdates < MaxLossUpdates
    /\ lmetric' = LossMetric_end_episode_update(lmetric)
    /\ lop' = LopRec("end_episode", StrNone, "none")
    /\ lpre' = lmetric
    /\ nupdates' = nupdates + 1
    /\ UNCHANGED <<lpc, taskVars, retVars, restVars>>

LossInit ==
    /\ lpc = "absent"
    /\ lmetric = NoLossMetric
    /\ lop = LopRec("none", StrNone, "none")
    /\ lpre = NoLossMetric
    /\ nupdates = 0

LossNext ==
    \/ \E l \in LossObjects, w \in WrtInputs : ConstructLossMetric(l, w)
    \/ \E w \in WrtInputs : SetWrt(w)
    \/ \E l \in LossObjects : SetLoss(l)
    \/ \E v \in 1..MaxLossValue : EndBatch(v)
    \/ EndEpoch
    \/ EndEpisodeLoss

\* ------------------------------------------------------------ TaskHierarchy
\* Rational arithmetic on the floats R(n, d), kept in lowest terms with a
\* positive denominator.
RECURSIVE Gcd(_, _)
Gcd(a, b) == IF b = 0 THEN a ELSE Gcd(b, a % b)
Abs(n) == IF n < 0 THEN 0 - n ELSE n
Norm(n, d) ==
    LET g == Gcd(Abs(n), Abs(d))
    IN IF d < 0 THEN R((0 - n) \div g, (0 - d) \div g) ELSE R(n \div g, d \div g)
RAdd(a, b) == Norm(a.num * b.den + b.num * a.den, a.den * b.den)
RSub(a, b) == Norm(a.num * b.den - b.num * a.den, a.den * b.den)
RMul(a, b) == Norm(a.num * b.num, a.den * b.den)
\* a / b for b # 0
RDiv(a, b) == Norm(a.num * b.den, a.den * b.num)

RECURSIVE SumR(_)
SumR(s) == IF s = <<>> THEN R(0, 1) ELSE RAdd(Head(s), SumR(Tail(s)))
\* u . v
Dot(u, v) == SumR([i \in DOMAIN u |-> RMul(u[i], v[i])])

\* The dimension of the decision variable, shared by all tasks.
NVar == 2
\* The entries of A are in 0..MaxCoef, b is -MaxCoef, 0 or MaxCoef.
MaxCoef == 1

\* The one-row matrices A and the targets b of a task.
TaskRows == [1..NVar -> {R(n, 1) : n \in 0..MaxCoef}]
TaskTargets == {R(n, 1) : n \in {0 - MaxCoef, 0, MaxCoef}}

\* The pseudo-inverse A+ of the one-row matrix A: A^T / (A . A), zero for A = 0.
pinv(A) ==
    LET ss == Dot(A, A)
    IN [i \in DOMAIN A |-> IF ss.num = 0 THEN R(0, 1) ELSE RDiv(A[i], ss)]

\* The least-squares solution of one level: x = A+ b.
solve_level(A, b) == [i \in DOMAIN A |-> RMul(pinv(A)[i], b)]

\* The identity in place of the projector.
NoProjector(A) ==
    [i \in DOMAIN A |->
        [j \in DOMAIN A |-> IF i = j THEN R(1, 1) ELSE R(0, 1)]]

\* The null-space projector of a level, I - A+ A, as its rows.
projector(A) ==
    [i \in DOMAIN A |->
        [j \in DOMAIN A |->
            RSub(IF i = j THEN R(1, 1) ELSE R(0, 1), RMul(pinv(A)[i], A[j]))]]

\* The row A N and the vector N z.
RowTimes(A, N) == [j \in DOMAIN A |-> SumR([i \in DOMAIN A |-> RMul(A[i], N[i][j])])]
Times(N, z) == [i \in DOMAIN z |-> Dot(N[i], z)]

\* A . x - b
residual(A, b, x) == RSub(Dot(A, x), b)

\* The command of a hierarchy of two levels: the first level's solution, plus
\* the second level's solved with its A projected on the first's null space.
solve_hierarchy(h) ==
    LET x1 == solve_level(h.A1, h.b1)
        N1 == projector(h.A1)
        r2 == RSub(h.b2, Dot(h.A2, x1))
        z == solve_level(RowTimes(h.A2, N1), r2)
    IN [i \in DOMAIN x1 |-> RAdd(x1[i], Times(N1, z)[i])]

NoHierarchy == [A1 |-> [i \in 1..NVar |-> R(0, 1)], b1 |-> R(0, 1),
                A2 |-> [i \in 1..NVar |-> R(0, 1)], b2 |-> R(0, 1)]

\* The update of the task of the first level: it has its new (A, b).
UpdateFirst(A, b) ==
    /\ hier' = [hier EXCEPT !.A1 = A, !.b1 = b]
    /\ hpc' = "updated"
    /\ hcmd' = <<>>
    /\ UNCHANGED <<taskVars, retVars, lossVars, spawnVars, decoVars>>

\* The update of the task of the second level.
UpdateSecond(A, b) ==
    /\ hier' = [hier EXCEPT !.A2 = A, !.b2 = b]
    /\ hpc' = "updated"
    /\ hcmd' = <<>>
    /\ UNCHANGED <<taskVars, retVars, lossVars, spawnVars, decoVars>>

\* The tick's solve.
HierarchySolve ==
    /\ hpc = "updated"
    /\ hcmd' = solve_hierarchy(hier)
    /\ hpc' = "solved"
    /\ UNCHANGED <<hier, taskVars, retVars, lossVars, spawnVars, decoVars>>

HierarchyInit ==
    /\ hpc = "idle"
    /\ hier = NoHierarchy
    /\ hcmd = <<>>

HierarchyNext ==
    \/ \E A \in TaskRows, b \in TaskTargets : UpdateFirst(A, b)
    \/ \E A \in TaskRows, b \in TaskTargets : UpdateSecond(A, b)
    \/ HierarchySolve

\* ------------------------------------------------------------- spawn_model
\* At most MaxJoints "-J name position" pairs are given.
MaxJoints == 1
\* At most MaxMsgs model_states messages reach the script.
MaxMsgs == 2

\* Concatenation of a sequence of token sequences.
RECURSIVE Concat(_)
Concat(ss) == IF ss = <<>> THEN <<>> ELSE Head(ss) \o Concat(Tail(ss))

\* The command lines given: the script's name, then each group of options
\* in one of its forms.
HelpArgs == {<<>>, <<"-h">>}
FormatArgs == {<<>>, <<"-urdf">>, <<"-sdf">>, <<"-gazebo">>,
               <<"-urdf", "-sdf">>, <<"-sdf", "-urdf">>}
ModelArgs == {<<>>, <<"-model", "robot">>}
SourceArgs == {<<>>, <<"-param", "robot_description">>,
               <<"-file", "model.urdf">>, <<"-database", "coke_can">>,
               <<"-param", "robot_description", "-file", "model.urdf">>}
WaitArgs == {<<>>, <<"-wait", "ground_plane">>}
UnpauseArgs == {<<>>, <<"-unpause">>}
JointArgs ==
    {Concat([i \in 1..k |-> <<"-J", "joint", "0.5">>]) : k \in 0..MaxJoints}
    \cup {<<"-J", "joint">>, <<"-J", "joint", "abc">>}
Argvs ==
    {<<"spawn_model">> \o h \o f \o m \o src \o w \o u \o j :
        h \in HelpArgs, f \in FormatArgs, m \in ModelArgs,
        src \in SourceArgs, w \in WaitArgs, u \in UnpauseArgs,
        j \in JointArgs}

\* float(s): the number a string spells, ValueError for any other string.
IsFloatLiteral(tok) == tok \in {"0.5", "1"}
float(tok) == IF tok = "0.5" THEN R(1, 2) ELSE IF tok = "1" THEN R(1, 1) ELSE NaN

\* SpawnModel.__init__
SpawnModel_init ==
    [file_name |-> "", param_name |-> "", database_name |-> "",
     model_name |-> "", unpause_physics |-> FALSE, wait_for_model |-> "",
     wait_for_model_exists |-> FALSE, urdf_format |-> FALSE,
     sdf_format |-> FALSE, joint_names |-> <<>>, joint_positions |-> <<>>]

\* The outcome of a step of the script: how it ended ("none" if it goes on)
\* and the object.
Go(self) == [exit |-> "none", self |-> self]
Exit(how, self) == [exit |-> how, self |-> self]

\* The body of the loop of parseUserInputs for the token at position i
\* (positions count from 1; sys.argv[i + 1] is the token at i + 1).
ParseToken(self, args, i) ==
    LET tok == args[i]
        has1 == Len(args) >= i + 1
        has2 == Len(args) >= i + 2
    IN IF tok \in {"-h", "--help", "-help"} THEN Exit("sys.exit(1)", self)
       ELSE IF tok = "-unpause" THEN Go([self EXCEPT !.unpause_physics = TRUE])
       ELSE IF tok = "-urdf"
            THEN IF self.sdf_format THEN Exit("sys.exit(0)", self)
                 ELSE Go([self EXCEPT !.urdf_format = TRUE])
       ELSE IF tok \in {"-sdf", "-gazebo"}
            THEN IF self.urdf_format THEN Exit("sys.exit(0)", self)
                 ELSE Go([self EXCEPT !.sdf_format = TRUE])
       ELSE IF tok = "-J"
            THEN IF ~has2 THEN Exit("sys.exit(0)", self)
                 ELSE LET named == [self EXCEPT
                                      !.joint_names = Append(@, args[i + 1])]
                      IN IF ~IsFloatLiteral(args[i + 2])
                         THEN Exit("ValueError", named)
                         ELSE Go([named EXCEPT !.joint_positions =
                                     Append(@, float(args[i + 2]))])
       ELSE IF tok = "-param"
            THEN IF ~has1 THEN Go(self)
                 ELSE IF self.file_name # "" \/ self.database_name # ""
                      THEN Exit("sys.exit(0)", self)
                      ELSE Go([self EXCEPT !.param_name = args[i + 1]])
       ELSE IF tok = "-file"
            THEN IF ~has1 THEN Go(self)
                 ELSE IF self.param_name # "" \/ self.database_name # ""
                      THEN Exit("sys.exit(0)", self)
                      ELSE Go([self EXCEPT !.file_name = args[i + 1]])
       ELSE IF tok = "-database"
            THEN IF ~has1 THEN Go(self)
                 ELSE IF self.param_name # "" \/ self.file_name # ""
                      THEN Exit("sys.exit(0)", self)
                      ELSE Go([self EXCEPT !.database_name = args[i + 1]])
       ELSE IF tok = "-model"
            THEN IF has1 THEN Go([self EXCEPT !.model_name = args[i + 1]])
                 ELSE Go(self)
       ELSE IF tok = "-wait"
            THEN IF has1 THEN Go([self EXCEPT !.wait_for_model = args[i + 1]])
                 ELSE Go(self)
       ELSE Go(self)

\* The loop of parseUserInputs from position i on.
RECURSIVE ParseFrom(_, _, _)
ParseFrom(st, args, i) ==
    IF st.exit # "none" \/ i > Len(args) THEN st
    ELSE ParseFrom(ParseToken(st.self, args, i), args, i + 1)

\* parseUserInputs without the check that a format was given.
ParseNoFormatCheck(self, args) ==
    LET st == ParseFrom(Go(self), args, 1)
    IN IF st.exit # "none" THEN st
       ELSE IF st.self.model_name = "" THEN Exit("sys.exit(0)", st.self)
       ELSE st

\* parseUserInputs
parseUserInputs(self, args) ==
    LET st == ParseFrom(Go(self), args, 1)
    IN IF st.exit # "none" THEN st
       ELSE IF ~st.self.sdf_format /\ ~st.self.urdf_format
            THEN Exit("sys.exit(0)", st.self)
       ELSE IF st.self.model_name = "" THEN Exit("sys.exit(0)", st.self)
       ELSE st

\* checkForModel without the comparison of names.
CheckForModelAnyName(self, names) ==
    IF names # {} THEN [self EXCEPT !.wait_for_model_exists = TRUE] ELSE self

\* checkForModel(model), names being model.name
checkForModel(self, names) ==
    IF self.wait_for_model \in names
    THEN [self EXCEPT !.wait_for_model_exists = TRUE]
    ELSE self

\* The names a model_states message may list.
ModelNames == {"ground_plane", "table"}

\* The script ends.
Ends(how) == spc' = "exited" /\ sexit' = how

\* __main__: usage() for a bare command line, else SpawnModel() and
\* parseUserInputs().
ParseUserInputs ==
    /\ spc = "start"
    /\ IF Len(argv) < 2
       THEN Ends("sys.exit(1)") /\ UNCHANGED sm
       ELSE LET st == parseUserInputs(SpawnModel_init, argv)
            IN /\ sm' = st.self
               /\ IF st.exit # "none" THEN Ends(st.exit)
                  ELSE spc' = "parsed" /\ UNCHANGED sexit
    /\ UNCHANGED <<argv, shutdown, subscribed, nmsgs, listed, services>>
    /\ UNCHANGED <<taskVars, retVars, lossVars, hierVars, decoVars>>

\* callSpawnService: init_node, and the subscription if a model is waited for.
InitNode ==
    /\ spc = "parsed"
    /\ IF sm.wait_for_model # ""
       THEN subscribed' = TRUE /\ spc' = "waiting"
       ELSE UNCHANGED subscribed /\ spc' = "checking"
    /\ UNCHANGED <<argv, sm, sexit, shutdown, nmsgs, listed, services>>
    /\ UNCHANGED <<taskVars, retVars, lossVars, hierVars, decoVars>>

\* callSpawnService: one test of the condition of the waiting loop.
WaitForModel ==
    /\ spc = "waiting"
    /\ IF ~shutdown /\ ~sm.wait_for_model_exists
       THEN spc' = "waiting"
       ELSE spc' = "checking"
    /\ UNCHANGED <<argv, sm, sexit, shutdown, subscribed, nmsgs, listed,
                   services>>
    /\ UNCHANGED <<taskVars, retVars, lossVars, hierVars, decoVars>>

\* callSpawnService: if rospy.is_shutdown(): sys.exit(0)
CheckShutdown ==
    /\ spc = "checking"
    /\ IF shutdown THEN Ends("sys.exit(0)")
       ELSE spc' = "loading" /\ UNCHANGED sexit
    /\ UNCHANGED <<argv, sm, shutdown, subscribed, nmsgs, listed, services>>
    /\ UNCHANGED <<taskVars, retVars, lossVars, hierVars, decoVars>>

\* callSpawnService: the model's xml from the file, the parameter or the
\* database; `readable` is whether the file or parameter holds any.
LoadModelXml(readable) ==
    /\ spc = "loading"
    /\ IF sm.file_name # "" \/ sm.param_name # ""
       THEN IF readable THEN spc' = "spawning" /\ UNCHANGED sexit
            ELSE Ends("sys.exit(0)")
       ELSE IF sm.database_name # "" THEN spc' = "spawning" /\ UNCHANGED sexit
       ELSE Ends("sys.exit(0)")
    /\ UNCHANGED <<argv, sm, shutdown, subscribed, nmsgs, listed, services>>
    /\ UNCHANGED <<taskVars, retVars, lossVars, hierVars, decoVars>>

\* callSpawnService: the spawn call.
SpawnCall ==
    /\ spc = "spawning"
    /\ IF sm.urdf_format
       THEN /\ services' = Append(services, "spawn_urdf_model")
            /\ spc' = "configuring" /\ UNCHANGED sexit
       ELSE IF sm.sdf_format
       THEN /\ services' = Append(services, "spawn_sdf_model")
            /\ spc' = "configuring" /\ UNCHANGED sexit
       ELSE Ends("sys.exit(0)") /\ UNCHANGED services
    /\ UNCHANGED <<argv, sm, shutdown, subscribed, nmsgs, listed>>
    /\ UNCHANGED <<taskVars, retVars, lossVars, hierVars, decoVars>>

\* The joint configuration set whether or not joints were given.
SetModelConfigurationAlways ==
    /\ spc = "configuring"
    /\ services' = Append(services, "set_model_configuration")
    /\ spc' = "unpausing"
    /\ UNCHANGED <<argv, sm, sexit, shutdown, subscribed, nmsgs, listed>>
    /\ UNCHANGED <<taskVars, retVars, lossVars, hierVars, decoVars>>

\* callSpawnService: the joint configuration, if joints were given; a
\* ServiceException of the call is caught and logged.
SetModelConfiguration ==
    /\ spc = "configuring"
    /\ services' = IF Len(sm.joint_names) # 0
                   THEN Append(services, "set_model_configuration")
                   ELSE services
    /\ spc' = "unpausing"
    /\ UNCHANGED <<argv, sm, sexit, shutdown, subscribed, nmsgs, listed>>
    /\ UNCHANGED <<taskVars, retVars, lossVars, hierVars, decoVars>>

\* callSpawnService: unpause physics if asked to, and return;
\* rospy.wait_for_service raises ROSInterruptException once ROS is shut down.
UnpausePhysics ==
    /\ spc = "unpausing"
    /\ IF sm.unpause_physics
       THEN IF shutdown
            THEN Ends("ROSInterruptException") /\ UNCHANGED services
            ELSE /\ services' = Append(services, "unpause_physics")
                 /\ spc' = "returned" /\ UNCHANGED sexit
       ELSE spc' = "returned" /\ UNCHANGED <<sexit, services>>
    /\ UNCHANGED <<argv, sm, shutdown, subscribed, nmsgs, listed>>
    /\ UNCHANGED <<taskVars, retVars, lossVars, hierVars, decoVars>>

\* The subscriber's thread hands a model_states message to checkForModel.
ModelStates(names) ==
    /\ subscribed /\ spc \notin {"returned", "exited"}
    /\ nmsgs < MaxMsgs
    /\ sm' = checkForModel(sm, names)
    /\ listed' = (listed \/ sm.wait_for_model \in names)
    /\ nmsgs' = nmsgs + 1
    /\ UNCHANGED <<spc, argv, sexit, shutdown, subscribed, services>>
    /\ UNCHANGED <<taskVars, retVars, lossVars, hierVars, decoVars>>

\* ROS shuts down.
RosShutdown ==
    /\ spc \notin {"off", "returned", "exited"} /\ ~shutdown
    /\ shutdown' = TRUE
    /\ UNCHANGED <<spc, argv, sm, sexit, subscribed, nmsgs, listed, services>>
    /\ UNCHANGED <<taskVars, retVars, lossVars, hierVars, decoVars>>

\* No script.
SpawnIdle ==
    /\ spc = "off" /\ argv = <<>> /\ sm = SpawnModel_init
    /\ sexit = "none" /\ shutdown = FALSE /\ subscribed = FALSE
    /\ nmsgs = 0 /\ listed = FALSE /\ services = <<>>

\* The script is started with a command line.
SpawnInit ==
    /\ spc = "start" /\ argv \in Argvs /\ sm = SpawnModel_init
    /\ sexit = "none" /\ shutdown = FALSE /\ subscribed = FALSE
    /\ nmsgs = 0 /\ listed = FALSE /\ services = <<>>

SpawnNext ==
    \/ ParseUserInputs
    \/ InitNode
    \/ WaitForModel
    \/ CheckShutdown
    \/ \E readable \in BOOLEAN : LoadModelXml(readable)
    \/ SpawnCall
    \/ SetModelConfiguration
    \/ UnpausePhysics
    \/ \E names \in SUBSET ModelNames : ModelStates(names)
    \/ RosShutdown

\* --------------------------------------------------------------- decorators
\* What a method does when it is called: it returns a value, or raises.
MethodReturns == {PyNone, PyScalar, zeros(RefLen)}
MethodRaises == {"KeyboardInterrupt", "subclass of KeyboardInterrupt",
                 "ValueError", "sys.exit(1)"}
MethodOutcomes == {Ok(v) : v \in MethodReturns} \cup {Raise(e) : e \in MethodRaises}
\* The positional arguments of a call.
MethodArgs == {<<>>, <<PyScalar>>, <<PyNone, PyStr>>}

\* except KeyboardInterrupt: matches the class and its subclasses.
IsKeyboardInterrupt(e) ==
    e \in {"KeyboardInterrupt", "subclass of KeyboardInterrupt"}

\* wrap with an except clause that matches every exception.
WrapExceptAll(outcome) ==
    IF outcome.exc # "none" THEN Raise("sys.exit(0)") ELSE outcome

\* keyboard_interrupt's wrap, the method's call having the given outcome.
wrap(outcome) ==
    IF IsKeyboardInterrupt(outcome.exc) THEN Raise("sys.exit(0)") ELSE outcome

\* The names the module decorator.py binds: its imports and its functions.
ModuleNames == {"sys", "numpy", "torch", "convert_numpy", "keyboard_interrupt"}

\* A torch tensor.
Tensor(s) == [kind |-> "Tensor", ndim |-> 1, elems |-> s]
\* The tensors the method returns.
MethodTensors == {Tensor(FloatSeq(1)), Tensor(FloatSeq(3))}
\* What convert_numpy's wrapper is called with as x.
WrapperInputs == Inputs \cup {Tensor(FloatSeq(3))}

\* torch.from_numpy(x).float(): a float tensor of x's numbers; TypeError
\* for an x that is no numpy array.
from_numpy_float(x) ==
    IF x.kind # "ndarray" THEN Raise("TypeError")
    ELSE Ok([kind |-> "Tensor", ndim |-> x.ndim,
             elems |-> [i \in DOMAIN x.elems |-> F(x.elems[i].v)]])

\* x.numpy(): the array of a tensor; AttributeError for any other x.
numpy(x) ==
    IF x.kind # "Tensor" THEN Raise("AttributeError")
    ELSE Ok([kind |-> "ndarray", ndim |-> x.ndim, elems |-> x.elems])

\* convert_numpy's wrapper, the method returning fret: its outcome and the
\* argument the method was called with.
wrapper(x, to_numpy, fret) ==
    IF "np" \notin ModuleNames
    THEN [out |-> Raise("NameError"), called |-> <<>>]
    ELSE LET c == IF x.kind # "ndarray" THEN from_numpy_float(x) ELSE Ok(x)
         IN IF c.exc # "none" THEN [out |-> c, called |-> <<>>]
            ELSE [out |-> IF to_numpy THEN numpy(fret) ELSE Ok(fret),
                  called |-> <<c.val>>]

DopRec(name, args, to_numpy, does) ==
    [name |-> name, args |-> args, to_numpy |-> to_numpy, does |-> does]

\* A call of a method decorated with keyboard_interrupt; an exception that
\* is a sys.exit ends the process.
CallInterruptible(args, outcome) ==
    /\ dpc = "running"
    /\ dcalled' = args
    /\ dret' = wrap(outcome)
    /\ dop' = DopRec("keyboard_interrupt", args, FALSE, outcome)
    /\ dpc' = IF wrap(outcome).exc \in {"sys.exit(0)", "sys.exit(1)"}
              THEN "exited" ELSE "running"
    /\ UNCHANGED <<taskVars, retVars, lossVars, hierVars, spawnVars>>

\* A call of a method decorated with convert_numpy.
CallConverted(x, to_numpy, fret) ==
    /\ dpc = "running"
    /\ LET r == wrapper(x, to_numpy, fret)
       IN dret' = r.out /\ dcalled' = r.called
    /\ dop' = DopRec("convert_numpy", <<x>>, to_numpy, Ok(fret))
    /\ UNCHANGED <<dpc, taskVars, retVars, lossVars, hierVars, spawnVars>>

DecoratorInit ==
    /\ dpc = "running"
    /\ dop = DopRec("none", <<>>, FALSE, Ok(PyNone))
    /\ dcalled = <<>>
    /\ dret = Ok(PyNone)

DecoratorNext ==
    \/ \E args \in MethodArgs, outcome \in MethodOutcomes :
            CallInterruptible(args, outcome)
    \/ \E x \in WrapperInputs, to_numpy \in BOOLEAN, fret \in MethodTensors :
            CallConverted(x, to_numpy, fret)

\* The subsystems after the metrics, not in use.
RestIdle == HierarchyInit /\ SpawnIdle /\ DecoratorInit

\* ------------------------------------------------------------ specifications
\* One AngularMomentumTask.
Init == TaskInit /\ ReturnInit /\ LossInit /\ RestIdle

Next == TaskNext

Spec == Init /\ [][Next]_vars

\* One AverageReturnMetric.
InitReturn == TaskIdle /\ ReturnInit /\ LossInit /\ RestIdle

SpecReturn == InitReturn /\ [][ReturnNext]_vars

\* One LossMetric.
InitLoss == TaskIdle /\ ReturnInit /\ LossInit /\ RestIdle

SpecLoss == InitLoss /\ [][LossNext]_vars

\* One metric of either class: the operations of an AverageReturnMetric while
\* no LossMetric has been touched, or those of a LossMetric while no
\* AverageReturnMetric has been.
InitMetrics == TaskIdle /\ ReturnInit /\ LossInit /\ RestIdle

NextMetrics ==
    \/ \E t \in TaskObjects, g \in Gammas,
          nr \in 0..MaxRollouts, ns \in 1..MaxSteps :
            lop.name = "none" /\ ConstructReturnMetric(t, g, nr, ns)
    \/ \E g \in Gammas : lop.name = "none" /\ SetGamma(g)
    \/ \E t \in TaskObjects : lop.name = "none" /\ SetTask(t)
    \/ \E oracle \in RunOracles(metric.num_rollouts) :
            lop.name = "none" /\ EndEpisodeReturn(oracle)
    \/ \E l \in LossObjects, w \in WrtInputs :
            mop.name = "none" /\ ConstructLossMetric(l, w)
    \/ \E w \in WrtInputs : mop.name = "none" /\ SetWrt(w)
    \/ \E l \in LossObjects : mop.name = "none" /\ SetLoss(l)
    \/ \E v \in 1..MaxLossValue : mop.name = "none" /\ EndBatch(v)
    \/ mop.name = "none" /\ EndEpoch
    \/ mop.name = "none" /\ EndEpisodeLoss

SpecMetrics == InitMetrics /\ [][NextMetrics]_vars

\* One hierarchy of two priority levels.
InitHierarchy == TaskIdle /\ ReturnInit /\ LossInit /\ RestIdle

SpecHierarchy == InitHierarchy /\ [][HierarchyNext]_vars

\* One run of the spawn_model script.
InitSpawn ==
    TaskIdle /\ ReturnInit /\ LossInit /\ HierarchyInit /\ SpawnInit
        /\ DecoratorInit

SpecSpawn == InitSpawn /\ [][SpawnNext]_vars

\* Calls of decorated methods.
InitDecorator == TaskIdle /\ ReturnInit /\ LossInit /\ RestIdle

SpecDecorator == InitDecorator /\ [][DecoratorNext]_vars

\* ------------------------------------------------------------------ claims
\* A one-dimensional array, list or tuple of RefLen numbers.
IsNumeric3(x) ==
    /\ x.kind \in {"ndarray", "list", "tuple"}
    /\ x.ndim = 1
    /\ Len(x.elems) = RefLen
    /\ \A i \in DOMAIN x.elems : x.elems[i].t \in {"int", "float"}

\* a == b element for element (numpy compares the numbers, whatever dtype).
ElementwiseEqual(a, b) ==
    /\ a.ndim = 1 /\ b.ndim = 1
    /\ Len(a.elems) = Len(b.elems)
    /\ \A i \in DOMAIN a.elems : a.elems[i].v = b.elems[i].v

\* C1: set_desired_references(v) with a numeric 3-vector v, followed by
\* get_desired_references(), returns a value equal to v element for element
\* (and the set did not raise).
C1_RoundTrip ==
    [][(op.name = "set" /\ IsNumeric3(op.arg) /\ op'.name = "get")
         => (op.exc = "none" /\ ElementwiseEqual(ret', op.arg))]_vars

\* A get has just returned the float form of the list [1, 2.0, 3.0] set
\* right before it.
C1_Witness ==
    /\ op.name = "get" /\ prevName = "set"
    /\ ret = Arr("ndarray", <<F(1), F(2), F(3)>>)

\* A list, tuple or array that has a length.
IsSizedArrayLike(x) == x.kind \in {"ndarray", "list", "tuple"} /\ x.ndim = 1

\* C2: set_desired_references(x) with an array-like x whose length is not 3
\* raises ValueError, and get_desired_references() afterwards returns the
\* reference stored before the call.
C2_WrongLengthRejected ==
    (op.name = "set" /\ IsSizedArrayLike(op.arg) /\ Len(op.arg.elems) # 3)
        => (op.exc = "ValueError" /\ x_desired(task) = x_desired(pre))

\* A list of four floats was refused while a non-zero reference was stored.
C2_Witness ==
    /\ op.name = "set" /\ op.arg = Arr("list", <<F(2), F(3), F(4), F(5)>>)
    /\ op.exc = "ValueError"
    /\ task.des_k = Arr("ndarray", <<I(1), I(2), I(3)>>)

Zero3 == Arr("ndarray", <<F(0), F(0), F(0)>>)

\* C3: a task constructed without a desired angular momentum has b = (0,0,0)
\* when construction ends, and set_desired_references(None) stores (0,0,0)
\* without raising.
C3_NoneIsZero ==
    /\ (op.name = "init" /\ op.arg = PyNone)
          => (op.exc = "none" /\ pc = "ready" /\ task.b = Zero3)
    /\ (op.name = "set" /\ op.arg = PyNone)
          => (op.exc = "none" /\ task.des_k = Zero3)

\* set_desired_references(None) has replaced a non-zero reference, and b is
\* the zero vector of a construction without a reference.
C3_Witness ==
    /\ op.name = "set" /\ op.arg = PyNone
    /\ pre.des_k = Arr("ndarray", <<F(2), F(3), F(4)>>)
    /\ task.b = Zero3

\* C4: an update() that directly follows an update(), model state and
\* reference unchanged in between, leaves (A, b) as the first one left them.
C4_UpdateIdempotent ==
    (op.name = "update" /\ prevName = "update")
        => (task.A = pre.A /\ task.b = pre.b)

\* Two updates in a row, in a configuration other than 0 and with a
\* non-zero reference.
C4_Witness ==
    /\ op.name = "update" /\ prevName = "update"
    /\ q = 1 /\ task.b = Arr("ndarray", <<F(1), F(2), F(3)>>)

\* C5: after every update(), A is the first three rows of the centroidal
\* momentum matrix of the model's configuration at that call and b is the
\* reference stored at that call, whatever (A, b) held before.
C5_UpdateOverwrites ==
    op.name = "update"
        => LET M == get_centroidal_momentum_matrix(q)
           IN /\ task.A = <<M[1], M[2], M[3]>>
              /\ task.b = task.des_k

\* An update has replaced an A and a b that came from another configuration
\* and another reference.
C5_Witness ==
    /\ op.name = "update"
    /\ pre.A # <<>> /\ pre.A # task.A
    /\ pre.b # PyNone /\ pre.b # task.b

\* C6: from the end of construction on, A has 3 rows and N columns (N the
\* number of columns of the model's centroidal momentum matrix) and b has
\* length 3 (len(b), whatever b's further dimensions).
C6_Shapes ==
    pc = "ready"
        => /\ Len(task.A) = 3
           /\ \A i \in DOMAIN task.A :
                 Len(task.A[i]) = Len(get_centroidal_momentum_matrix(q)[1])
           /\ task.b.ndim >= 1 /\ Len(task.b.elems) = 3
           /\ Len(task.A) = Len(task.b.elems)

\* The constructor has just returned: nobody has called update() yet.
C6_Witness == pc = "ready" /\ op.name = "init" /\ op.arg = PyNone

\* C7: set_desired_references(x) with an x that is neither None nor an
\* array, list or tuple raises TypeError and the stored reference is the
\* one stored before.
C7_WrongTypeRejected ==
    (op.name = "set" /\ op.arg.kind \notin {"None", "ndarray", "list", "tuple"})
        => (op.exc = "TypeError" /\ task.des_k = pre.des_k)

\* range(3) was refused while a non-zero reference was stored.
C7_Witness ==
    /\ op.name = "set" /\ op.arg = PyRange /\ op.exc = "TypeError"
    /\ task.des_k = Arr("ndarray", <<F(2), F(3), F(4)>>)

\* C8: the gamma an AverageReturnMetric stores lies in [0, 1] after
\* construction and after every assignment to gamma: a value above 1 is
\* stored as 1, a value below 0 as 0, a value in [0, 1] unchanged, and the
\* assignment does not raise.
C8_GammaClamped ==
    mpc = "ready"
        => /\ ~metric.gamma.nan
           /\ 0 <= metric.gamma.num /\ metric.gamma.num <= metric.gamma.den
           /\ mop.name \in {"init", "gamma"}
                => /\ mop.exc = "none"
                   /\ Gt(mop.arg, R(1, 1)) => metric.gamma = R(1, 1)
                   /\ Lt(mop.arg, R(0, 1)) => metric.gamma = R(0, 1)
                   /\ (~mop.arg.nan /\ ~Gt(mop.arg, R(1, 1))
                         /\ ~Lt(mop.arg, R(0, 1))) => metric.gamma = mop.arg

\* C9: _end_episode_update() calls task.run exactly num_rollouts times, each
\* time with the metric's num_steps, and appends exactly one value to
\* returns: the arithmetic mean of the rewards these calls returned.
C9_EndEpisodeAveragesRollouts ==
    mop.name = "end_episode"
        => LET n == metric.num_rollouts
               got == SubSeq(rewards, 1, Len(calls))
               m == metric.returns[Len(metric.returns)]
           IN /\ Len(calls) = n
              /\ \A i \in DOMAIN calls : calls[i] = metric.num_steps
              /\ Len(metric.returns) = Len(mpre.returns) + 1
              /\ SubSeq(metric.returns, 1, Len(mpre.returns)) = mpre.returns
              /\ n > 0 => (~m.nan /\ m.num = Sum(got) /\ m.den = n)

\* A second episode has ended after two runs of two steps each whose
\* rewards 0 and 1 average to 1/2.
C9_Witness ==
    /\ mop.name = "end_episode"
    /\ calls = <<2, 2>> /\ rewards = <<0, 1>>
    /\ Len(metric.returns) = 2 /\ metric.returns[2] = R(1, 2)

\* s begins with the letters of p, upper or lower case.
BeginsWithAnyCase(s, p) ==
    /\ Len(s) >= Len(p)
    /\ \A i \in DOMAIN p :
          \/ s[i] = p[i]
          \/ \E k \in DOMAIN UpperChars :
                UpperChars[k] = s[i] /\ LowerChars[k] = p[i]

\* C10: the wrt a LossMetric stores is 'episode' for a string that begins
\* with 'episode' in any letter case, 'epoch' for one that begins with
\* 'epoch' in any letter case, and 'iteration' for every other string and
\* for None: always one of the three.
C10_WrtNormalised ==
    (lpc = "ready" /\ lop.name \in {"init", "wrt"})
        => /\ lmetric.wrt \in {episode, epoch, iteration}
           /\ lmetric.wrt = episode
                <=> (lop.arg.kind = "str" /\ BeginsWithAnyCase(lop.arg.chars, episode))
           /\ lmetric.wrt = epoch
                <=> (lop.arg.kind = "str" /\ BeginsWithAnyCase(lop.arg.chars, epoch))

\* wrt = 'EPOCHS' was assigned to a metric that plotted per episode, and
\* 'epoch' is stored.
C10_Witness ==
    /\ lop.name = "wrt"
    /\ lop.arg = Str(<<"E", "P", "O", "C", "H", "S">>)
    /\ lpre.wrt = episode /\ lmetric.wrt = epoch

\* C11: constructing an AverageReturnMetric with a task that is no RLTask,
\* or a LossMetric with a loss that is no BatchLoss, raises TypeError and
\* makes no metric; assigning such an object to the task or the loss of an
\* existing metric raises TypeError and leaves the task or loss it had.
C11_WrongObjectRejected ==
    /\ (mop.name = "init" /\ mop.obj \notin RLTasks)
            => (mop.exc = "TypeError" /\ mpc = "absent")
    /\ (mop.name = "task" /\ mop.obj \notin RLTasks)
            => /\ mop.exc = "TypeError"
               /\ metric.task = mpre.task /\ metric.task \in RLTasks
    /\ (lop.name = "init" /\ lop.obj \notin BatchLosses)
            => (lop.exc = "TypeError" /\ lpc = "absent")
    /\ (lop.name = "loss" /\ lop.obj \notin BatchLosses)
            => /\ lop.exc = "TypeError"
               /\ lmetric.loss = lpre.loss /\ lmetric.loss \in BatchLosses

\* An object that is no RLTask was assigned to the task of a metric made with
\* the second RLTask: TypeError, and the metric still has the second RLTask.
C11_Witness ==
    /\ mop.name = "task" /\ mop.obj = "object" /\ mop.exc = "TypeError"
    /\ mpc = "ready" /\ metric.task = "other RLTask"

\* C12: _end_batch_update appends exactly one loss value to the batch list;
\* _end_epoch_update appends the batch list as one element to the epoch list
\* and empties the batch list; _end_episode_update appends the epoch list as
\* one element to losses and empties the epoch list; each leaves the other
\* lists alone, so losses[episode][epoch][batch] is a loss value.
C12_LossesNested ==
    /\ lop.name = "end_batch"
            => /\ lmetric.batch_losses = Append(lpre.batch_losses, lop.val)
               /\ lmetric.epoch_losses = lpre.epoch_losses
               /\ lmetric.losses = lpre.losses
    /\ lop.name = "end_epoch"
            => /\ lmetric.epoch_losses
                    = Append(lpre.epoch_losses, lpre.batch_losses)
               /\ lmetric.batch_losses = <<>>
               /\ lmetric.losses = lpre.losses
    /\ lop.name = "end_episode"
            => /\ lmetric.losses = Append(lpre.losses, lpre.epoch_losses)
               /\ lmetric.epoch_losses = <<>>
               /\ lmetric.batch_losses = lpre.batch_losses
    /\ \A e \in DOMAIN lmetric.losses :
         \A p \in DOMAIN lmetric.losses[e] :
           \A b \in DOMAIN lmetric.losses[e][p] :
              lmetric.losses[e][p][b] \in 1..MaxLossValue

\* An episode has ended after one epoch of one batch with loss 2.
C12_Witness ==
    /\ lop.name = "end_episode"
    /\ lmetric.losses = << << <<2>> >> >>
    /\ lmetric.epoch_losses = <<>> /\ lmetric.batch_losses = <<>>

\* Two floats are the same number.
SameNumber(a, b) == ~a.nan /\ ~b.nan /\ a.num * b.den = b.num * a.den

\* The mean over the rollouts of sum_t gamma^t * r_t, for rollouts of T steps
\* that earn their whole reward rs[i] at the last step, t = T - 1.
AverageDiscountedReturn(gamma, rs, T) ==
    LET pow(b, k) == IF k = 0 THEN 1 ELSE b ^ k
    IN R(pow(gamma.num, T - 1) * Sum(rs), pow(gamma.den, T - 1) * Len(rs))

\* C13: the value an AverageReturnMetric records at the end of an episode is
\* the average discounted return, the mean over the rollouts of
\* sum_t gamma^t * r_t with the gamma the metric stores; stated for rollouts
\* whose whole reward comes at the last of the num_steps steps.
C13_RecordsDiscountedReturn ==
    (mop.name = "end_episode" /\ metric.num_rollouts > 0 /\ ~metric.gamma.nan)
        => SameNumber(metric.returns[Len(metric.returns)],
                      AverageDiscountedReturn(metric.gamma, rewards,
                                              metric.num_steps))

\* C14: in a hierarchy of two priority levels the lower-priority task does
\* not change the residual of the higher-priority task: whatever the (A, b)
\* of the second level, A1 . x - b1 for the command x of the hierarchy equals
\* A1 . x1 - b1 for the solution x1 of the first level alone.
C14_HigherResidualKept ==
    hpc = "solved"
        => SameNumber(residual(hier.A1, hier.b1, hcmd),
                      residual(hier.A1, hier.b1,
                               solve_level(hier.A1, hier.b1)))

\* The first level asks x1 + x2 = 1, the second x1 = 1: the command is
\* (1, 0), which meets both, where the first level alone gives (1/2, 1/2).
C14_Witness ==
    /\ hpc = "solved"
    /\ hier = [A1 |-> <<R(1, 1), R(1, 1)>>, b1 |-> R(1, 1),
               A2 |-> <<R(1, 1), R(0, 1)>>, b2 |-> R(1, 1)]
    /\ hcmd = <<R(1, 1), R(0, 1)>>

\* C17: every desired reference the task accepts is a one-dimensional vector
\* of exactly 3 numbers: an array-like whose shape is not (3,), or whose
\* elements are no numbers, is rejected with an exception and not stored.
C17_ReferenceIsNumeric3Vector ==
    /\ pc = "ready" => IsNumeric3(task.des_k)
    /\ (op.name \in {"init", "set"} /\ op.arg # PyNone /\ ~IsNumeric3(op.arg))
            => /\ op.exc # "none"
               /\ op.name = "set" => task.des_k = pre.des_k

\* The script is in callSpawnService, or back from it.
InCallSpawnService ==
    spc \in {"parsed", "waiting", "checking", "loading", "spawning",
             "configuring", "unpausing", "returned"}
\* The script is past the shutdown check of callSpawnService.
PastShutdownCheck ==
    spc \in {"loading", "spawning", "configuring", "unpausing", "returned"}
\* The command line holds the option.
Given(opt) == \E i \in DOMAIN argv : argv[i] = opt

\* C18: with -wait <name>, no service is called before a model_states
\* message listing name has reached checkForModel; once one has, the flag
\* wait_for_model_exists is set and stays set; and the script does not get
\* past its shutdown check without the flag, so if ROS shuts down first it
\* exits without spawning.
C18_WaitsForModel ==
    sm.wait_for_model # ""
        => /\ services # <<>> => listed
           /\ listed <=> sm.wait_for_model_exists
           /\ PastShutdownCheck => sm.wait_for_model_exists
           /\ (spc = "checking" /\ ~sm.wait_for_model_exists) => shutdown
           /\ (spc = "exited" /\ ~listed) => services = <<>>

\* The script waited for ground_plane, was handed two model_states
\* messages, and spawned after one of them listed ground_plane.
C18_Witness ==
    /\ spc = "returned" /\ sm.wait_for_model = "ground_plane"
    /\ nmsgs = 2 /\ listed /\ services = <<"spawn_urdf_model">>

ServicesInOrder ==
    <<IF Given("-urdf") THEN "spawn_urdf_model" ELSE "spawn_sdf_model">>
    \o (IF Given("-J") THEN <<"set_model_configuration">> ELSE <<>>)
    \o (IF Given("-unpause") THEN <<"unpause_physics">> ELSE <<>>)

\* C20: callSpawnService calls its services in a fixed order: the spawn
\* service, then set_model_configuration only if a -J joint was given, then
\* unpause_physics only if -unpause was given; when it returns it has made
\* exactly these calls.
C20_ServiceOrder ==
    /\ Len(services) <= Len(ServicesInOrder)
    /\ services = SubSeq(ServicesInOrder, 1, Len(services))
    /\ spc = "returned" => services = ServicesInOrder

\* The script returned after spawning an sdf model, setting its joint and
\* unpausing physics.
C20_Witness ==
    /\ spc = "returned"
    /\ services = <<"spawn_sdf_model", "set_model_configuration",
                    "unpause_physics">>

\* C23: set_desired_references changes only the stored desired reference:
\* A and b are those of the last update() after it, and after every other
\* operation that is no update(), so between a set_desired_references(v)
\* and the next update() b is the earlier reference and may differ from
\* what get_desired_references() returns.
C23_SetLeavesAandB ==
    /\ op.name \in {"set", "get", "step"}
            => (task.A = pre.A /\ task.b = pre.b)
    /\ (op.name = "set" /\ op.exc = "none" /\ op.arg # PyNone)
            => x_desired(task) = asarray(op.arg)
    /\ (op.name = "get" /\ prevName = "set") => ret = x_desired(task)

\* (2, 3, 4) was set on a task whose b is (0, 0, 0), and then read back:
\* get_desired_references() returned (2, 3, 4) while b is still (0, 0, 0).
C23_Witness ==
    /\ op.name = "get" /\ prevName = "set"
    /\ ret = Arr("ndarray", <<F(2), F(3), F(4)>>)
    /\ task.b = zeros(RefLen)

\* C21: a method wrapped by keyboard_interrupt is called with the
\* arguments of the call; its return value is returned as it is and every
\* exception that is no KeyboardInterrupt reaches the caller; when it raises
\* KeyboardInterrupt the caller gets no KeyboardInterrupt: sys.exit(0) ends
\* the process with status 0.
C21_KeyboardInterruptExits ==
    dop.name = "keyboard_interrupt"
        => /\ dcalled = dop.args
           /\ ~IsKeyboardInterrupt(dop.does.exc) => dret = dop.does
           /\ IsKeyboardInterrupt(dop.does.exc)
                => (dret.exc = "sys.exit(0)" /\ dpc = "exited")
           /\ ~IsKeyboardInterrupt(dret.exc)
           /\ dpc = "exited" => dret.exc \in {"sys.exit(0)", "sys.exit(1)"}

\* The method raised KeyboardInterrupt and the process exited with status 0.
C21_Witness ==
    /\ dop.name = "keyboard_interrupt"
    /\ dop.does = Raise("KeyboardInterrupt")
    /\ dret = Raise("sys.exit(0)") /\ dpc = "exited"

\* C22: a method wrapped by convert_numpy and called with a numpy array x
\* is called with x as a float torch tensor, and the call returns the
\* method's result as a numpy array when to_numpy is true and as a torch
\* tensor otherwise.
C22_ConvertsNumpy ==
    (dop.name = "convert_numpy" /\ dop.args[1].kind = "ndarray")
        => /\ dcalled = <<from_numpy_float(dop.args[1]).val>>
           /\ dret.exc = "none"
           /\ dret.val.elems = dop.does.val.elems
           /\ dret.val.kind = IF dop.to_numpy THEN "ndarray" ELSE "Tensor"

====
